---- MODULE Spec2Model ----
(***************************************************************************)
(* Utility billing: get_charge_array resolves a tariff table into a        *)
(* per-timestamp rate table, calculate_cost turns a rate table and a       *)
(* consumption series into a cost (tiered demand billing, cumulative-tier  *)
(* energy billing).                                                        *)
(*                                                                         *)
(* Numbers are kept exact as integers.  A timestamp's fractional hour      *)
(* (hour + k/4) is held multiplied by StepsPerHour.  In the energy branch  *)
(* the variable cost holds the code's cost multiplied by divisor (every    *)
(* term the code adds there is a multiple of 1/divisor), and the test      *)
(* energy / divisor > limit is written energy > divisor * limit.           *)
(***************************************************************************)
EXTENDS Integers, Sequences, FiniteSets, TLC

VARIABLES
    rate_data,        \* the tariff table: a sequence of rows, index = position
    window,           \* consumption_data["DateTime"]: whole days of one month
    charge_type,      \* get_charge_array's charge_type argument
    utility,          \* get_charge_array's utility argument
    charges,          \* what get_charge_array returned (list, table or raised)
    pc,               \* position of the driver / of calculate_cost
    consumption_data, \* the consumption series handed to calculate_cost
    cc_charge_type,   \* calculate_cost's charge_type argument
    cc_utility,       \* calculate_cost's utility argument
    j,                \* calculate_cost: tier index (1-based position in names)
    i,                \* calculate_cost: column index (demand) / sample index (energy, 0-based)
    energy,           \* calculate_cost: running sum of consumption
    start_idx,        \* calculate_cost: cursor (0-based)
    cost,             \* calculate_cost: running cost
    raised            \* the exception calculate_cost raised, "" when none

vars == <<rate_data, window, charge_type, utility, charges, pc, consumption_data,
          cc_charge_type, cc_utility, j, i, energy, start_idx, cost, raised>>

----------------------------------------------------------------------------
(* Program constants *)

\* samples per day: ndays = int(shape[0] / 96)
DayLen == 96
\* 15-minute increments per hour: np.arange(4) / 4
StepsPerHour == 4
\* divisor for utility "electric"
ElectricDivisor == 4
\* divisor for utility "gas"
GasDivisor == 96

(* Bounds of the model *)

\* days in the consumption window
NDays == 1
\* consumption readings range over 0..MaxCons
MaxCons == 2
\* rows in a tariff table
MaxRules == 3

----------------------------------------------------------------------------
(* Small helpers *)

\* mutant: the smaller of the two
Max2_Min(a, b) == IF a >= b THEN b ELSE a

Max2(a, b) == IF a >= b THEN a ELSE b

RECURSIVE MaxRange(_, _, _)
\* the maximum of s[lo..hi], lo <= hi (halving keeps the recursion shallow)
MaxRange(s, lo, hi) ==
    IF lo = hi THEN s[lo]
    ELSE LET mid == (lo + hi) \div 2
         IN  Max2(MaxRange(s, lo, mid), MaxRange(s, mid + 1, hi))

\* np.max of a non-empty 1-D array of length n
SeqMax(s, n) == MaxRange(s, 1, n)

RECURSIVE SumRange_DropLast(_, _, _, _)
\* mutant: the slice loses its last sample
SumRange_DropLast(a, b, lo, hi) ==
    IF lo > hi - 1 THEN 0
    ELSE IF lo = hi - 1 THEN a[lo] * b[lo]
    ELSE LET mid == (lo + hi - 1) \div 2
         IN  SumRange_DropLast(a, b, lo, mid + 1) + SumRange_DropLast(a, b, mid + 1, hi)

RECURSIVE SumRange(_, _, _, _)
\* np.sum(a[lo..hi] * b[lo..hi]) over 1-based positions, 0 for an empty range
SumRange(a, b, lo, hi) ==
    IF lo > hi THEN 0
    ELSE IF lo = hi THEN a[lo] * b[lo]
    ELSE LET mid == (lo + hi) \div 2
         IN  SumRange(a, b, lo, mid) + SumRange(a, b, mid + 1, hi)

RECURSIVE ArgMaxRange(_, _, _)
\* the FIRST position of s[lo..hi] holding its maximum
ArgMaxRange(s, lo, hi) ==
    IF lo = hi THEN lo
    ELSE LET mid == (lo + hi) \div 2
             l   == ArgMaxRange(s, lo, mid)
             r   == ArgMaxRange(s, mid + 1, hi)
         IN  IF s[r] > s[l] THEN r ELSE l

\* np.argmax: the first position holding the maximum (1-based here)
ArgMax(s) == ArgMaxRange(s, 1, Len(s))

RECURSIVE SortedSeq(_)
\* np.unique: the distinct values in ascending order
SortedSeq(S) ==
    IF S = {} THEN << >>
    ELSE LET m == CHOOSE x \in S : \A y \in S : x <= y
         IN  <<m>> \o SortedSeq(S \ {m})

\* str(limit) for an integer limit, and the literal key of the empty fallback
StrOf(n) == CASE n = 0 -> "0" [] n = 1 -> "1" [] n = 2 -> "2" [] n = 3 -> "3"
              [] OTHER -> "n"

\* float(name)
FloatOf(s) == CASE s = "0" -> 0 [] s = "0.0" -> 0 [] s = "1" -> 1
                [] s = "2" -> 2 [] s = "3" -> 3 [] OTHER -> -1

----------------------------------------------------------------------------
(* The consumption window's DateTime column *)

\* number of samples in the window
NSamples(w) == w.ndays * DayLen

\* consumption_data["DateTime"].dt.month
months(w) == [t \in 1..NSamples(w) |-> w.month]

\* consumption_data["DateTime"].dt.weekday
weekdays(w) == [t \in 1..NSamples(w) |-> (w.weekday + ((t - 1) \div DayLen)) % 7]

\* hours (times StepsPerHour): dt.hour plus np.tile(np.arange(4) / 4, 24 * ndays)
hours(w) == [t \in 1..NSamples(w) |->
                StepsPerHour * (((t - 1) % DayLen) \div StepsPerHour)
                + ((t - 1) % StepsPerHour)]

----------------------------------------------------------------------------
(* get_charge_array *)

RECURSIVE FilterRows_AnyUtility(_, _, _, _)
\* mutant: the utility filter is left out
FilterRows_AnyUtility(rd, ct, ut, n) ==
    IF n > Len(rd) THEN << >>
    ELSE (IF rd[n].type = ct THEN <<n>> ELSE << >>)
         \o FilterRows_AnyUtility(rd, ct, ut, n + 1)

RECURSIVE FilterRows(_, _, _, _)
\* index labels of the rows with type == charge_type and utility == utility,
\* in table order
FilterRows(rd, ct, ut, n) ==
    IF n > Len(rd) THEN << >>
    ELSE (IF rd[n].type = ct /\ rd[n].utility = ut THEN <<n>> ELSE << >>)
         \o FilterRows(rd, ct, ut, n + 1)

RECURSIVE FilterLimit(_, _, _, _)
\* the rows of charges whose basic_charge_limit equals limit
FilterLimit(rd, sel, limit, n) ==
    IF n > Len(sel) THEN << >>
    ELSE (IF rd[sel[n]].limit = limit THEN <<sel[n]>> ELSE << >>)
         \o FilterLimit(rd, sel, limit, n + 1)

\* mutant: hour_end inclusive
apply_charge_EndInclusive(w, charge) ==
    LET ms == months(w)
        ws == weekdays(w)
        hs == hours(w)
    IN  [t \in 1..NSamples(w) |->
            /\ ms[t] >= charge.month_start
            /\ ms[t] <= charge.month_end
            /\ ws[t] >= charge.weekday_start
            /\ ws[t] <= charge.weekday_end
            /\ hs[t] >= StepsPerHour * charge.hour_start
            /\ hs[t] <= StepsPerHour * charge.hour_end]

\* the applicability mask of one rule over the window
apply_charge(w, charge) ==
    LET ms == months(w)
        ws == weekdays(w)
        hs == hours(w)
    IN  [t \in 1..NSamples(w) |->
            /\ ms[t] >= charge.month_start
            /\ ms[t] <= charge.month_end
            /\ ws[t] >= charge.weekday_start
            /\ ws[t] <= charge.weekday_end
            /\ hs[t] >= StepsPerHour * charge.hour_start
            /\ hs[t] < StepsPerHour * charge.hour_end]

\* apply_charge * charge["charge (imperial)"]
MaskTimes(mask, rate) == [t \in DOMAIN mask |-> IF mask[t] THEN rate ELSE 0]

\* min(limit_charges.index.values)
MinIndex(grp) == CHOOSE x \in {grp[n] : n \in 1..Len(grp)} :
                     \A n \in 1..Len(grp) : x <= grp[n]

\* one pass of "for idx in limit_charges.index" for charge_type demand;
\* st = [err, data, seen]: data is the (N, k) array as k columns,
\* seen is periods_seen
DemandRule(w, rd, sel, grp, n, st) ==
    LET idx    == grp[n]
        idx_np == idx - MinIndex(grp)
        charge == rd[idx]
        mask   == apply_charge(w, charge)
    IN  IF st.err # "" THEN st
        ELSE IF idx_np + 1 > Len(sel) THEN [st EXCEPT !.err = "IndexError"]
        ELSE
        LET period == rd[sel[idx_np + 1]].period
            fresh  == period \notin DOMAIN st.seen
            col    == IF fresh THEN idx_np ELSE st.seen[period].idx_np
            m      == IF fresh THEN mask
                      ELSE [t \in DOMAIN mask |-> mask[t] \/ st.seen[period].mask[t]]
            seen2  == IF fresh
                      THEN [p \in DOMAIN st.seen \cup {period} |->
                               IF p = period THEN [idx_np |-> idx_np, mask |-> mask]
                               ELSE st.seen[p]]
                      ELSE st.seen
        IN  IF col + 1 > Len(grp) THEN [st EXCEPT !.err = "IndexError"]
            ELSE [err  |-> "",
                  data |-> [st.data EXCEPT ![col + 1] = MaskTimes(m, charge.charge)],
                  seen |-> seen2]

\* one pass of "for idx in limit_charges.index" for charge_type energy;
\* data is the 1-D array
EnergyRule(w, rd, sel, grp, n, st) ==
    LET idx    == grp[n]
        idx_np == idx - MinIndex(grp)
        charge == rd[idx]
        mask   == apply_charge(w, charge)
    IN  IF st.err # "" THEN st
        ELSE IF idx_np + 1 > Len(sel) THEN [st EXCEPT !.err = "IndexError"]
        ELSE [st EXCEPT !.data = [t \in DOMAIN mask |->
                                     st.data[t] + MaskTimes(mask, charge.charge)[t]]]

RECURSIVE LimitLoop(_, _, _, _, _, _)
\* the loop over the rules of one limit, rules 1..n
LimitLoop(w, rd, ct, sel, grp, n) ==
    IF n = 0
    THEN [err  |-> "",
          data |-> IF ct = "demand"
                   THEN [c \in 1..Len(grp) |-> [t \in 1..NSamples(w) |-> 0]]
                   ELSE [t \in 1..NSamples(w) |-> 0],
          seen |-> << >>]
    ELSE IF ct = "demand"
         THEN DemandRule(w, rd, sel, grp, n, LimitLoop(w, rd, ct, sel, grp, n - 1))
         ELSE EnergyRule(w, rd, sel, grp, n, LimitLoop(w, rd, ct, sel, grp, n - 1))

\* new_charge_array[str(limit)] = data: numpy broadcasts data of shape (N, k)
\* into the table's shape (N, ncols), or raises
Broadcast(data, ncols) ==
    IF Len(data) = ncols THEN data
    ELSE [c \in 1..ncols |-> data[1]]

RECURSIVE TierLoop(_, _, _, _, _, _)
\* "for limit in np.unique(charge_limits)", limits 1..n; the result is
\* [kind, dim, ncols, tiers] or [kind |-> "raised", err]
TierLoop(w, rd, ct, sel, limits, n) ==
    IF n = 0 THEN [kind |-> "table", dim |-> 0, ncols |-> 0, tiers |-> << >>]
    ELSE
    LET prev == TierLoop(w, rd, ct, sel, limits, n - 1)
        grp  == FilterLimit(rd, sel, limits[n], 1)
        res  == LimitLoop(w, rd, ct, sel, grp, Len(grp))
    IN  IF prev.kind = "raised" THEN prev
        ELSE IF res.err # "" THEN [kind |-> "raised", err |-> res.err]
        ELSE IF ct = "energy"
        THEN [kind |-> "table", dim |-> 1, ncols |-> 1,
              tiers |-> Append(prev.tiers, [name |-> StrOf(limits[n]), data |-> res.data])]
        ELSE IF n = 1
        THEN [kind |-> "table", dim |-> 2, ncols |-> Len(grp),
              tiers |-> <<[name |-> StrOf(limits[n]), data |-> res.data]>>]
        ELSE IF Len(grp) # prev.ncols /\ Len(grp) # 1
        THEN [kind |-> "raised", err |-> "ValueError"]
        ELSE [prev EXCEPT !.tiers =
                 Append(prev.tiers, [name |-> StrOf(limits[n]),
                                     data |-> Broadcast(res.data, prev.ncols)])]

\* mutant: an empty selection raises instead of resolving to the zero column
get_charge_array_EmptyRaises(w, rd, ct, ut) ==
    LET sel    == FilterRows(rd, ct, ut, 1)
        limits == SortedSeq({rd[sel[n]].limit : n \in 1..Len(sel)})
    IN  IF ct = "customer"
        THEN [kind |-> "list", values |-> [n \in 1..Len(sel) |-> rd[sel[n]].charge]]
        ELSE IF ct \notin {"demand", "energy"} \/ Len(sel) = 0
        THEN [kind |-> "raised", err |-> "ValueError"]
        ELSE TierLoop(w, rd, ct, sel, limits, Len(limits))

\* mutant: the empty selection is tested before the charge_type
get_charge_array_FallbackFirst(w, rd, ct, ut) ==
    LET sel    == FilterRows(rd, ct, ut, 1)
        limits == SortedSeq({rd[sel[n]].limit : n \in 1..Len(sel)})
        zeros  == [t \in 1..NSamples(w) |-> 0]
    IN  IF ct = "customer"
        THEN [kind |-> "list", values |-> [n \in 1..Len(sel) |-> rd[sel[n]].charge]]
        ELSE IF ct = "demand" /\ Len(sel) = 0
        THEN [kind |-> "table", dim |-> 2, ncols |-> 1,
              tiers |-> <<[name |-> "0.0", data |-> <<zeros>>]>>]
        ELSE IF Len(sel) = 0
        THEN [kind |-> "table", dim |-> 1, ncols |-> 1,
              tiers |-> <<[name |-> "0.0", data |-> zeros]>>]
        ELSE IF ct \notin {"demand", "energy"}
        THEN [kind |-> "raised", err |-> "ValueError"]
        ELSE TierLoop(w, rd, ct, sel, limits, Len(limits))

\* get_charge_array(consumption_data, rate_data, charge_type, utility)
get_charge_array(w, rd, ct, ut) ==
    LET sel    == FilterRows(rd, ct, ut, 1)
        limits == SortedSeq({rd[sel[n]].limit : n \in 1..Len(sel)})
        zeros  == [t \in 1..NSamples(w) |-> 0]
    IN  IF ct = "customer"
        THEN [kind |-> "list", values |-> [n \in 1..Len(sel) |-> rd[sel[n]].charge]]
        ELSE IF ct = "demand" /\ Len(sel) = 0
        THEN [kind |-> "table", dim |-> 2, ncols |-> 1,
              tiers |-> <<[name |-> "0.0", data |-> <<zeros>>]>>]
        ELSE IF ct = "energy" /\ Len(sel) = 0
        THEN [kind |-> "table", dim |-> 1, ncols |-> 1,
              tiers |-> <<[name |-> "0.0", data |-> zeros]>>]
        ELSE IF ct \notin {"demand", "energy"}
        THEN [kind |-> "raised", err |-> "ValueError"]
        ELSE TierLoop(w, rd, ct, sel, limits, Len(limits))

----------------------------------------------------------------------------
(* calculate_cost *)

\* names = charges.dtype.names
names(ch) == [n \in 1..Len(ch.tiers) |-> ch.tiers[n].name]

\* the columns charges[name][:, i] of one tier; a 1-D entry has no second
\* axis (IndexError) and is costed whole by the except branch
Columns(ch, n) == IF ch.dim = 2 THEN ch.tiers[n].data ELSE <<ch.tiers[n].data>>

\* demand = consumption_data[np.argmax(column * consumption_data) + index[0]]
demand(col, cons) == cons[ArgMax([t \in DOMAIN col |-> col[t] * cons[t]])]

\* mutant: the full tier width is never charged, always the difference
DemandTerm_NoCap(ch, cons, n, c) ==
    LET col  == Columns(ch, n)[c]
        name == FloatOf(names(ch)[n])
        peak == demand(col, cons)
    IN  Max2(SeqMax([t \in DOMAIN col |-> (peak - name) * col[t]], Len(col)), 0)

\* mutant: the difference from the limit is not floored at 0
DemandTerm_NoFloor(ch, cons, n, c) ==
    LET col      == Columns(ch, n)[c]
        name     == FloatOf(names(ch)[n])
        has_next == n < Len(ch.tiers)
        next     == IF has_next THEN FloatOf(names(ch)[n + 1]) ELSE 0
        peak     == demand(col, cons)
    IN  IF has_next /\ peak > next
        THEN SeqMax([t \in DOMAIN col |-> (next - name) * col[t]], Len(col))
        ELSE SeqMax([t \in DOMAIN col |-> (peak - name) * col[t]], Len(col))

\* the amount one column of tier n adds to the demand cost
DemandTerm(ch, cons, n, c) ==
    LET col      == Columns(ch, n)[c]
        name     == FloatOf(names(ch)[n])
        has_next == n < Len(ch.tiers)
        next     == IF has_next THEN FloatOf(names(ch)[n + 1]) ELSE 0
        peak     == demand(col, cons)
    IN  IF has_next /\ peak > next
        THEN SeqMax([t \in DOMAIN col |-> (next - name) * col[t]], Len(col))
        ELSE Max2(SeqMax([t \in DOMAIN col |-> (peak - name) * col[t]], Len(col)), 0)

\* divisor selection of the energy branch, 0 for an invalid utility
divisor(ut) == CASE ut = "electric" -> ElectricDivisor
                 [] ut = "gas" -> GasDivisor
                 [] OTHER -> 0

RECURSIVE ScanRange(_, _, _, _, _)
\* the scan over the 0-based samples lo..hi, entered with energy e: it stops
\* at the first sample k with e + cons[lo] + ... + cons[k] > bound
ScanRange(cons, lo, hi, e, bound) ==
    IF lo = hi
    THEN [i |-> lo, energy |-> e + cons[lo + 1], crossed |-> e + cons[lo + 1] > bound]
    ELSE LET mid  == (lo + hi) \div 2
             left == ScanRange(cons, lo, mid, e, bound)
         IN  IF left.crossed THEN left
             ELSE ScanRange(cons, mid + 1, hi, left.energy, bound)

\* "for i in range(start_idx, len(charges[name]))": add samples to energy until
\* energy / divisor > float(next_name) or the window ends; k is 0-based
ScanFrom(cons, k, e, bound) == ScanRange(cons, k, Len(cons) - 1, e, bound)

\* divisor * float(next_name) for tier n
NextBound(ch, ut, n) == divisor(ut) * FloatOf(names(ch)[n + 1])

\* (divisor times) the partial amount billed at the crossing sample
PartialAmount(ch, ut, n, cons, e, k) == NextBound(ch, ut, n) - (e - cons[k + 1])

RECURSIVE DemandCostFrom(_, _, _, _)
\* the demand branch run to its end from column c of tier n
DemandCostFrom(ch, cons, n, c) ==
    IF n > Len(ch.tiers) THEN 0
    ELSE DemandTerm(ch, cons, n, c)
         + (IF c < Len(Columns(ch, n))
            THEN DemandCostFrom(ch, cons, n, c + 1)
            ELSE DemandCostFrom(ch, cons, n + 1, 1))

RECURSIVE EnergyCostFrom(_, _, _, _, _, _)
\* the energy branch run to its end from tier n, entered with cursor start
\* (0-based) and running sum e; the result is divisor times the cost
EnergyCostFrom(ch, cons, ut, n, start, e) ==
    LET data == ch.tiers[n].data IN
    IF n = Len(ch.tiers) THEN SumRange(cons, data, start + 1, Len(cons))
    ELSE
    LET r      == ScanFrom(cons, start, e, NextBound(ch, ut, n))
        billed == IF r.crossed
                  THEN SumRange(cons, data, start + 1, r.i)
                       + PartialAmount(ch, ut, n, cons, r.energy, r.i) * data[r.i + 1]
                  ELSE 0
        cursor == IF r.crossed THEN r.i + 1 ELSE start
    IN  IF r.i = Len(cons) - 1
        THEN billed + SumRange(cons, data, cursor + 1, Len(cons))
        ELSE billed + EnergyCostFrom(ch, cons, ut, n + 1, cursor, r.energy)

\* calculate_cost(charges, consumption_data, charge_type, utility) as one
\* value: the cost (times the divisor for energy), or the error raised
calculate_cost(ch, cons, ct, ut) ==
    IF ct = "demand" THEN [kind |-> "cost", value |-> DemandCostFrom(ch, cons, 1, 1)]
    ELSE IF ct = "energy" /\ divisor(ut) # 0
    THEN [kind |-> "cost", value |-> EnergyCostFrom(ch, cons, ut, 1, 0, 0)]
    ELSE [kind |-> "raised", err |-> "ValueError"]

----------------------------------------------------------------------------
(* Inputs *)

Rule(ty, period, limit, ms, me, ws, we, hs, he, rate) ==
    [utility |-> "electric", type |-> ty, period |-> period, limit |-> limit,
     month_start |-> ms, month_end |-> me, weekday_start |-> ws, weekday_end |-> we,
     hour_start |-> hs, hour_end |-> he, charge |-> rate]

\* one time-of-use period split over three clock ranges, and a customer charge
MergePool ==
    { Rule("demand", "A", 0, 1, 12, 0, 6, 0, 8, 2),
      Rule("demand", "A", 0, 1, 12, 0, 6, 8, 16, 2),
      Rule("demand", "A", 0, 1, 12, 0, 6, 16, 24, 2),
      Rule("customer", "", 0, 1, 12, 0, 6, 0, 24, 5) }

\* two periods, two tiers, a credit (negative rate)
TierPool ==
    { Rule("demand", "A", 0, 1, 12, 0, 6, 0, 8, 2),
      Rule("demand", "B", 0, 1, 6, 0, 4, 0, 24, 1),
      Rule("demand", "A", 1, 1, 12, 0, 6, 0, 24, 3),
      Rule("demand", "A", 0, 1, 12, 0, 6, 0, 24, -1) }

\* three tiers (the top one a daytime rate), a stacked afternoon rate ending
\* at hour 24, an off-season rate
EnergyPool ==
    { Rule("energy", "A", 0, 1, 12, 0, 6, 0, 24, 1),
      Rule("energy", "B", 0, 1, 6, 0, 4, 12, 24, 1),
      Rule("energy", "A", 1, 1, 12, 0, 6, 0, 24, 2),
      Rule("energy", "A", 2, 1, 12, 0, 6, 6, 18, 3),
      Rule("energy", "C", 0, 7, 12, 5, 6, 0, 24, 2) }

\* energy rules of one tier and a customer charge: rows of two charge types
MixedPool ==
    { Rule("energy", "A", 0, 1, 12, 0, 6, 0, 24, 1),
      Rule("energy", "B", 0, 1, 6, 0, 4, 12, 24, 1),
      Rule("customer", "", 0, 1, 12, 0, 6, 0, 24, 5) }

\* tables of up to MaxRules distinct rows of one pool, in any order
Arrangements(pool) ==
    UNION { { s \in [1..n -> pool] : \A a, b \in 1..n : a # b => s[a] # s[b] }
            : n \in 0..MaxRules }

DemandTariffs == Arrangements(MergePool) \cup Arrangements(TierPool)

EnergyTariffs == Arrangements(EnergyPool) \cup Arrangements(MixedPool)

\* tables of at most one row
ShortTariffs == { s \in DemandTariffs \cup EnergyTariffs : Len(s) <= 1 }

Windows == { [ndays |-> NDays, month |-> 6, weekday |-> 4] }

ChargeTypes == {"customer", "demand", "energy", "bogus"}

Utilities == {"electric", "gas"}

ConsValues == 0..MaxCons

\* a series given by its first reading, its last reading and the level in
\* between
Profile(w, first, mid, last) ==
    [t \in 1..NSamples(w) |->
        IF t = 1 THEN first ELSE IF t = NSamples(w) THEN last ELSE mid]

Consumptions(w) ==
    { Profile(w, first, mid, last) :
        first \in ConsValues, mid \in ConsValues, last \in {0, MaxCons} }

\* a reading that alone carries MaxCons + 1 units at the electric divisor,
\* more than the distance between two tier limits
Surge == ElectricDivisor * (MaxCons + 1)

\* series that open with the surge reading
Surges(w) == { Profile(w, Surge, mid, 0) : mid \in {0, MaxCons} }

\* the calls of get_charge_array: every demand table for demand, every
\* energy table for energy, the short tables and the tables with a customer
\* row for every charge_type and utility
Inputs ==
    (DemandTariffs \X {"demand"} \X {"electric"})
    \cup (EnergyTariffs \X {"energy"} \X {"electric"})
    \cup (ShortTariffs \X ChargeTypes \X Utilities)
    \cup (Arrangements(MergePool) \X {"customer", "bogus"} \X Utilities)

\* the calls of calculate_cost on a table resolved from rd for utility ut.
\* The driver bills a table with the algorithm it was resolved for; a 1-D
\* table of at most one rule is also billed by the demand algorithm, both
\* divisors are tried, the surge series are billed at the electric divisor,
\* and an invalid charge_type or utility, which raises before
\* consumption_data is read, is tried with two series
CostCalls(w, rd, ch, ut) ==
    (IF ch.dim = 2 \/ Len(rd) <= 1
     THEN Consumptions(w) \X {<<"demand", ut>>} ELSE {})
    \cup (IF ch.dim = 1
          THEN (Consumptions(w) \X {<<"energy", "electric">>, <<"energy", "gas">>})
               \cup (Surges(w) \X {<<"energy", "electric">>})
          ELSE {})
    \cup ({Profile(w, 0, 0, 0), Profile(w, MaxCons, 0, MaxCons)}
          \X ({<<"bogus", ut>>}
              \cup (IF ch.dim = 1 THEN {<<"energy", "water">>} ELSE {})))

----------------------------------------------------------------------------
(* The state machine *)

Init ==
    /\ \E inp \in Inputs :
        /\ rate_data = inp[1]
        /\ charge_type = inp[2]
        /\ utility = inp[3]
    /\ window \in Windows
    /\ charges = [kind |-> "none"]
    /\ pc = "start"
    /\ consumption_data = << >>
    /\ cc_charge_type = ""
    /\ cc_utility = ""
    /\ j = 0
    /\ i = 0
    /\ energy = 0
    /\ start_idx = 0
    /\ cost = 0
    /\ raised = ""

\* the driver calls get_charge_array
GetChargeArray ==
    /\ pc = "start"
    /\ charges' = get_charge_array(window, rate_data, charge_type, utility)
    /\ pc' = "resolved"
    /\ UNCHANGED <<rate_data, window, charge_type, utility, consumption_data,
                   cc_charge_type, cc_utility, j, i, energy, start_idx, cost, raised>>

\* the driver calls calculate_cost on the table: names, cost = 0 and the
\* dispatch on charge_type and utility
CallCalculateCost ==
    /\ pc = "resolved"
    /\ charges.kind = "table"
    /\ \E call \in CostCalls(window, rate_data, charges, utility) :
      LET cons == call[1]  args == call[2] IN
        /\ consumption_data' = cons
        /\ cc_charge_type' = args[1]
        /\ cc_utility' = args[2]
        /\ cost' = 0
        /\ energy' = 0
        /\ start_idx' = 0
        /\ j' = 1
        /\ i' = IF args[1] = "demand" THEN 1 ELSE 0
        /\ IF args[1] = "demand" THEN pc' = "demand" /\ raised' = ""
           ELSE IF args[1] = "energy" /\ divisor(args[2]) # 0
           THEN pc' = "energy" /\ raised' = ""
           ELSE pc' = "raised" /\ raised' = "ValueError"
    /\ UNCHANGED <<rate_data, window, charge_type, utility, charges>>

\* demand branch: one column i of tier j
DemandColumn ==
    /\ pc = "demand"
    /\ cost' = cost + DemandTerm(charges, consumption_data, j, i)
    /\ IF i < Len(Columns(charges, j))
       THEN i' = i + 1 /\ j' = j /\ pc' = "demand"
       ELSE /\ i' = 1
            /\ j' = j + 1
            /\ pc' = IF j < Len(charges.tiers) THEN "demand" ELSE "done"
    /\ UNCHANGED <<rate_data, window, charge_type, utility, charges, consumption_data,
                   cc_charge_type, cc_utility, energy, start_idx, raised>>

\* energy branch, j is the last tier: bill everything from the cursor on
EnergyLastTier ==
    /\ pc = "energy"
    /\ j = Len(charges.tiers)
    /\ cost' = cost + SumRange(consumption_data, charges.tiers[j].data,
                               start_idx + 1, Len(consumption_data))
    /\ pc' = "done"
    /\ UNCHANGED <<rate_data, window, charge_type, utility, charges, consumption_data,
                   cc_charge_type, cc_utility, j, i, energy, start_idx, raised>>

\* energy branch, a next tier exists: scan from the cursor for the crossing
EnergyScan ==
    /\ pc = "energy"
    /\ j < Len(charges.tiers)
    /\ LET r == ScanFrom(consumption_data, start_idx, energy,
                         NextBound(charges, cc_utility, j))
       IN  /\ i' = r.i
           /\ energy' = r.energy
           /\ pc' = IF r.crossed THEN "crossed" ELSE "tier_end"
    /\ UNCHANGED <<rate_data, window, charge_type, utility, charges, consumption_data,
                   cc_charge_type, cc_utility, j, start_idx, cost, raised>>

\* at the crossing: the full samples start_idx..i-1 at this tier's rate
EnergyBillFull ==
    /\ pc = "crossed"
    /\ cost' = cost + SumRange(consumption_data, charges.tiers[j].data, start_idx + 1, i)
    /\ pc' = "partial"
    /\ UNCHANGED <<rate_data, window, charge_type, utility, charges, consumption_data,
                   cc_charge_type, cc_utility, j, i, energy, start_idx, raised>>

\* at the crossing: the part of sample i up to the next limit, then the
\* cursor moves past sample i
EnergyBillPartial ==
    /\ pc = "partial"
    /\ cost' = cost + PartialAmount(charges, cc_utility, j, consumption_data, energy, i)
                      * charges.tiers[j].data[i + 1]
    /\ start_idx' = i + 1
    /\ pc' = "tier_end"
    /\ UNCHANGED <<rate_data, window, charge_type, utility, charges, consumption_data,
                   cc_charge_type, cc_utility, j, i, energy, raised>>

\* "if i == len(charges[name]) - 1": bill the rest and stop, else next tier
EnergyTierEnd ==
    /\ pc = "tier_end"
    /\ IF i = Len(consumption_data) - 1
       THEN /\ cost' = cost + SumRange(consumption_data, charges.tiers[j].data,
                                       start_idx + 1, Len(consumption_data))
            /\ pc' = "done"
            /\ j' = j
       ELSE /\ cost' = cost
            /\ pc' = "energy"
            /\ j' = j + 1
    /\ UNCHANGED <<rate_data, window, charge_type, utility, charges, consumption_data,
                   cc_charge_type, cc_utility, i, energy, start_idx, raised>>

Next ==
    \/ GetChargeArray
    \/ CallCalculateCost
    \/ DemandColumn
    \/ EnergyLastTier
    \/ EnergyScan
    \/ EnergyBillFull
    \/ EnergyBillPartial
    \/ EnergyTierEnd

Spec == Init /\ [][Next]_vars

----------------------------------------------------------------------------
(* Reference definitions used by the properties: written from the billing   *)
(* rules, independently of the operators above                              *)

RECURSIVE RefSum(_, _, _)
\* f[lo] + ... + f[hi]
RefSum(f, lo, hi) ==
    IF lo > hi THEN 0
    ELSE IF lo = hi THEN f[lo]
    ELSE RefSum(f, lo, (lo + hi) \div 2) + RefSum(f, (lo + hi) \div 2 + 1, hi)

RefSetMax(S) == CHOOSE x \in S : \A y \in S : y <= x

RefSetMin(S) == CHOOSE x \in S : \A y \in S : x <= y

\* the rule applies at sample t of the window: month and weekday ranges
\* inclusive, fractional hour in [hour_start, hour_end)
RefApplies(r, w, t) ==
    LET day     == (t - 1) \div DayLen
        quarter == (t - 1) % DayLen
    IN  /\ r.month_start <= w.month /\ w.month <= r.month_end
        /\ r.weekday_start <= (w.weekday + day) % 7
        /\ (w.weekday + day) % 7 <= r.weekday_end
        /\ StepsPerHour * r.hour_start <= quarter
        /\ quarter < StepsPerHour * r.hour_end

\* the rows get_charge_array was asked for
RefMatching == { n \in 1..Len(rate_data) :
                   rate_data[n].type = charge_type /\ rate_data[n].utility = utility }

RefTierRows(limit) == { n \in RefMatching : rate_data[n].limit = limit }

Resolved == pc # "start"

IsTable == charges.kind = "table"

NTiers == Len(charges.tiers)

Limit(n) == FloatOf(charges.tiers[n].name)

N == Len(consumption_data)

\* the columns of tier n as a sequence of series
RefColumns(n) ==
    IF charges.dim = 2 THEN charges.tiers[n].data ELSE <<charges.tiers[n].data>>

\* every rate of the resolved table is >= 0
NonNegRates ==
    \A n \in 1..NTiers : \A c \in 1..Len(RefColumns(n)) :
        \A t \in DOMAIN RefColumns(n)[c] : RefColumns(n)[c][t] >= 0

\* every limit of the resolved table is >= 0
NonNegLimits == \A n \in 1..NTiers : Limit(n) >= 0

\* the consumption at the first sample that maximises column * consumption
RefPeak(col) ==
    LET prod == [t \in 1..N |-> col[t] * consumption_data[t]]
        mx   == RefSetMax({prod[t] : t \in 1..N})
    IN  consumption_data[RefSetMin({t \in 1..N : prod[t] = mx})]

\* the rate of a column: its largest value
RefRate(col) == RefSetMax({col[t] : t \in DOMAIN col})

\* the tiered demand charge of column c of tier n
RefDemandTerm(n, c) ==
    LET col == RefColumns(n)[c]
    IN  IF n < NTiers /\ RefPeak(col) > Limit(n + 1)
        THEN (Limit(n + 1) - Limit(n)) * RefRate(col)
        ELSE IF (RefPeak(col) - Limit(n)) * RefRate(col) > 0
             THEN (RefPeak(col) - Limit(n)) * RefRate(col)
             ELSE 0

RefDemandCost ==
    RefSum([n \in 1..NTiers |->
               RefSum([c \in 1..Len(RefColumns(n)) |-> RefDemandTerm(n, c)],
                      1, Len(RefColumns(n)))],
           1, NTiers)

\* the divisor of the energy call
RefDivisor == IF cc_utility = "electric" THEN 4 ELSE 96

\* divisor * (sum of the consumption of samples 1..t)
RefCum(t) == RefSum(consumption_data, 1, t)

RECURSIVE RefPrefix(_, _)
\* over samples lo..hi: their sum and the largest sum of a non-empty prefix
RefPrefix(lo, hi) ==
    IF lo = hi
    THEN [sum |-> consumption_data[lo], top |-> consumption_data[lo]]
    ELSE LET l == RefPrefix(lo, (lo + hi) \div 2)
             r == RefPrefix((lo + hi) \div 2 + 1, hi)
         IN  [sum |-> l.sum + r.sum,
              top |-> IF l.top >= l.sum + r.top THEN l.top ELSE l.sum + r.top]

\* the largest cumulative consumption reached anywhere in the window
RefCumTop == RefPrefix(1, N).top

\* the usage of the whole window billed at the lowest tier's rate (times divisor)
RefFlatEnergyCost ==
    RefSum([t \in 1..N |-> consumption_data[t] * charges.tiers[1].data[t]], 1, N)

\* the part of the interval (a, b] that lies in (lo, hi]
RefOverlap(a, b, lo, hi) ==
    LET l == IF a > lo THEN a ELSE lo
        h == IF b < hi THEN b ELSE hi
    IN  IF h > l THEN h - l ELSE 0

\* the usage of sample t that falls into tier n (times divisor): the lowest
\* tier starts at 0, the topmost tier has no ceiling
RefTierUsage(n, t) ==
    LET lo == IF n = 1 THEN 0 ELSE RefDivisor * Limit(n)
        hi == IF n = NTiers THEN RefCum(N) ELSE RefDivisor * Limit(n + 1)
    IN  RefOverlap(RefCum(t - 1), RefCum(t), lo, hi)

\* every unit of usage billed once, at the rate of the tier it falls into
RefTieredEnergyCost ==
    RefSum([t \in 1..N |->
               RefSum([n \in 1..NTiers |-> RefTierUsage(n, t) * charges.tiers[n].data[t]],
                      1, NTiers)],
           1, N)

EnergyDone == pc = "done" /\ cc_charge_type = "energy"

DemandDone == pc = "done" /\ cc_charge_type = "demand"

----------------------------------------------------------------------------
(* C1 *)

\* C1: energy cost with two or more tiers, when the cumulative usage crosses
\* the second tier's limit: every unit of usage is billed exactly once, at
\* the rate of the tier it falls into, so the cost is the tier-weighted total
C1_TierWeightedTotal ==
    (EnergyDone /\ NTiers >= 2 /\ NonNegRates /\ RefCum(N) > RefDivisor * Limit(2))
        => cost = RefTieredEnergyCost

----------------------------------------------------------------------------
(* C8 *)

\* C8: energy cost when no tier boundary is crossed (a single tier, or the
\* cumulative usage never exceeds the second tier's limit): the cost is the
\* whole window billed at the lowest tier's rate, nothing from a higher tier
C8_NoCrossingFlatCost ==
    (EnergyDone /\ (NTiers = 1 \/ RefCumTop <= RefDivisor * Limit(2)))
        => cost = RefFlatEnergyCost

\* a two-tier energy run that ends without a crossing and bills something
C8_Witness ==
    /\ EnergyDone
    /\ NTiers >= 2
    /\ RefCumTop <= RefDivisor * Limit(2)
    /\ RefCum(N) > 0
    /\ cost > 0

----------------------------------------------------------------------------
(* C2 *)

\* C2: on a table with non-negative rates the demand cost is the sum, over
\* every tier t and every column c of it, of (next_limit - limit_t) * rate_c
\* when a next tier exists and peak_c > next_limit (strictly), and of
\* max((peak_c - limit_t) * rate_c, 0) otherwise
C2_DemandCostFormula ==
    (DemandDone /\ NonNegRates) => cost = RefDemandCost

\* a two-tier demand run in which the peak of a rated column of the lower
\* tier equals the next tier's limit exactly, and one in which it exceeds it
C2_Witness ==
    /\ DemandDone
    /\ NonNegRates
    /\ NTiers = 2
    /\ cost > 0
    /\ \E c \in 1..Len(RefColumns(1)) :
          /\ RefRate(RefColumns(1)[c]) > 0
          /\ RefPeak(RefColumns(1)[c]) = Limit(2)
          /\ Limit(2) > Limit(1)

----------------------------------------------------------------------------
(* C3 *)

\* the columns of tier n that are nonzero exactly where a rule of that tier
\* labelled p applies
RefPeriodColumns(n, p) ==
    { c \in 1..Len(RefColumns(n)) :
        \A t \in 1..NSamples(window) :
            (RefColumns(n)[c][t] # 0) <=>
                \E r \in RefTierRows(Limit(n)) :
                    rate_data[r].period = p /\ RefApplies(rate_data[r], window, t) }

\* C3: resolve for demand: the rules of one tier that share a period label
\* give exactly one column of that tier, nonzero exactly where at least one
\* of those rules applies (the OR of the masks of all of them)
C3_OneColumnPerPeriod ==
    (pc = "resolved" /\ charge_type = "demand" /\ IsTable /\ RefMatching # {})
        => \A n \in 1..NTiers :
              \A p \in { rate_data[r].period : r \in RefTierRows(Limit(n)) } :
                  Cardinality(RefPeriodColumns(n, p)) = 1

----------------------------------------------------------------------------
(* C4 *)

\* C4: when no rule matches the utility and charge_type, resolve for demand
\* or energy returns a table of exactly one tier keyed "0.0" that is 0 at
\* every timestamp, and cost on that table is 0 for every consumption series
C4_EmptyTariffBilledZero ==
    (Resolved /\ charge_type \in {"demand", "energy"} /\ RefMatching = {})
        => /\ IsTable
           /\ NTiers = 1
           /\ charges.tiers[1].name = "0.0"
           /\ Len(RefColumns(1)) = 1
           /\ pc = "resolved" =>
                 /\ DOMAIN RefColumns(1)[1] = 1..NSamples(window)
                 /\ \A t \in 1..NSamples(window) : RefColumns(1)[1][t] = 0
           /\ cost = 0
           /\ (cc_charge_type \in {"demand", "energy"} /\ cc_utility \in {"electric", "gas"}
                 => raised = "")

\* the energy algorithm has finished on the fallback table of a tariff that
\* has rules, none of them matching, with a consumption series that is not 0
C4_Witness ==
    /\ EnergyDone
    /\ RefMatching = {}
    /\ Len(rate_data) > 0
    /\ RefCum(N) > 0

----------------------------------------------------------------------------
(* C5 *)

RefCustomerRows == { n \in 1..Len(rate_data) : rate_data[n].type = "customer" }

\* C5 as stated: a tariff with a single customer rule of rate R resolves for
\* customer to exactly [R], whatever utility argument is passed
C5_CustomerAnyUtility ==
    (Resolved /\ charge_type = "customer" /\ Cardinality(RefCustomerRows) = 1)
        => /\ charges.kind = "list"
           /\ charges.values = <<rate_data[CHOOSE n \in RefCustomerRows : TRUE].charge>>

\* C5 amended: a tariff with a single customer rule of rate R resolves for
\* customer to exactly [R] when the rule's utility is the utility argument,
\* and to the empty list otherwise, whatever the window
C5_CustomerMatchingUtility ==
    (Resolved /\ charge_type = "customer" /\ Cardinality(RefCustomerRows) = 1)
        => LET r == rate_data[CHOOSE n \in RefCustomerRows : TRUE]
           IN  /\ charges.kind = "list"
               /\ charges.values = IF r.utility = utility THEN <<r.charge>> ELSE << >>

\* a customer resolve of a tariff holding the customer rule among other rows
C5_Witness ==
    /\ Resolved
    /\ charge_type = "customer"
    /\ Cardinality(RefCustomerRows) = 1
    /\ Len(rate_data) > 1
    /\ utility = "electric"
    /\ charges.kind = "list"
    /\ Len(charges.values) = 1

----------------------------------------------------------------------------
(* C6 *)

\* C6: invalid arguments end in a usage error, never in a value: resolve for
\* a charge_type outside {customer, demand, energy}, whatever the tariff and
\* utility; cost for a charge_type outside {demand, energy} and for energy
\* with a utility outside {electric, gas}, with nothing accumulated
C6_InvalidArgumentsRaise ==
    /\ (Resolved /\ charge_type \notin {"customer", "demand", "energy"})
          => (charges.kind = "raised" /\ charges.err = "ValueError" /\ pc = "resolved")
    /\ (pc \notin {"start", "resolved"}
        /\ (\/ cc_charge_type \notin {"demand", "energy"}
            \/ (cc_charge_type = "energy" /\ cc_utility \notin {"electric", "gas"})))
          => (pc = "raised" /\ raised = "ValueError" /\ cost = 0)
    /\ (pc = "raised")
          => (\/ cc_charge_type \notin {"demand", "energy"}
              \/ (cc_charge_type = "energy" /\ cc_utility \notin {"electric", "gas"}))

\* resolve was called with an invalid charge_type on a tariff none of whose
\* rows match (the case of the zero-column fallback) and raised
C6_Witness ==
    /\ Resolved
    /\ charge_type = "bogus"
    /\ Len(rate_data) > 0
    /\ charges.kind = "raised"

\* cost was called for energy with an invalid utility and raised
C6_WitnessCost ==
    /\ pc = "raised"
    /\ cc_charge_type = "energy"
    /\ cc_utility = "water"

----------------------------------------------------------------------------
(* C7 *)

\* the sum of the rates of the rules of the given rows that apply at sample t
RefStackedRate(rows, t) ==
    RefSum([n \in 1..Len(rate_data) |->
               IF n \in rows /\ RefApplies(rate_data[n], window, t)
               THEN rate_data[n].charge ELSE 0],
           1, Len(rate_data))

\* C7: resolve for energy: the table returned has one series per distinct
\* tier_limit, ascending, and at every timestamp the value is the sum of the
\* rates of the tier's rules whose month, weekday and [hour_start, hour_end)
\* ranges hold the timestamp
C7_EnergyRatesStack ==
    (pc = "resolved" /\ charge_type = "energy" /\ RefMatching # {} /\ IsTable)
        => /\ charges.dim = 1
           /\ NTiers = Cardinality({ rate_data[r].limit : r \in RefMatching })
           /\ \A n \in 1..NTiers :
                 /\ RefTierRows(Limit(n)) # {}
                 /\ n > 1 => Limit(n - 1) < Limit(n)
                 /\ DOMAIN charges.tiers[n].data = 1..NSamples(window)
                 /\ \A t \in 1..NSamples(window) :
                       charges.tiers[n].data[t] = RefStackedRate(RefTierRows(Limit(n)), t)

\* two rules of one tier stack: the rule with hour_end = 24 adds its rate at
\* the last sample of the day (23.75) and adds nothing just before its
\* hour_start
C7_Witness ==
    /\ Resolved
    /\ charge_type = "energy"
    /\ IsTable
    /\ \E r1, r2 \in RefMatching :
          /\ r1 # r2
          /\ rate_data[r1].limit = rate_data[r2].limit
          /\ rate_data[r2].hour_end = 24
          /\ rate_data[r2].hour_start > 0
          /\ \E n \in 1..NTiers :
                /\ Limit(n) = rate_data[r1].limit
                /\ charges.tiers[n].data[DayLen]
                     = rate_data[r1].charge + rate_data[r2].charge
                /\ charges.tiers[n].data[StepsPerHour * rate_data[r2].hour_start]
                     = rate_data[r1].charge

----------------------------------------------------------------------------
(* C9 *)

ZeroConsumption == \A t \in 1..N : consumption_data[t] = 0

\* C9: for a tariff with non-negative limits and rates, resolving and then
\* costing a consumption series that is 0 at every sample gives cost 0, on
\* the demand path and on the energy path
C9_ZeroConsumptionCostsZero ==
    (pc \in {"demand", "energy", "crossed", "partial", "tier_end", "done"}
     /\ ZeroConsumption /\ RefMatching # {} /\ NonNegLimits /\ NonNegRates)
        => cost = 0

\* a demand run over two tiers with rated columns has finished on a zero
\* series
C9_Witness ==
    /\ DemandDone
    /\ ZeroConsumption
    /\ RefMatching # {}
    /\ NonNegRates
    /\ NTiers = 2
    /\ \A n \in 1..NTiers : \E c \in 1..Len(RefColumns(n)) : RefRate(RefColumns(n)[c]) > 0

----------------------------------------------------------------------------
(* C10 *)

\* C10 as stated: every term the demand branch adds is floored at 0, so the
\* running cost never decreases, whatever the sign of the rates
C10_DemandNeverDecreases ==
    [][pc = "demand" => cost' >= cost]_vars

\* C10 amended: on a table with ascending limits and non-negative rates every
\* term the demand branch adds is >= 0, so the running cost never decreases
\* and the result is >= 0
C10_DemandNeverDecreasesNonNeg ==
    [][(pc = "demand" /\ NonNegRates) => (cost' >= cost /\ cost' >= 0)]_vars

\* a demand run over two tiers has finished having charged the full width of
\* the lower tier
C10_Witness ==
    /\ DemandDone
    /\ NonNegRates
    /\ NTiers = 2
    /\ \E c \in 1..Len(RefColumns(1)) :
          /\ RefRate(RefColumns(1)[c]) > 0
          /\ RefPeak(RefColumns(1)[c]) > Limit(2)
    /\ cost > 0

----------------------------------------------------------------------------
(* C11 *)

\* the tables holding the rows of rd in every order
RowOrders(rd) ==
    { [n \in 1..Len(rd) |-> rd[f[n]]] :
        f \in { g \in [1..Len(rd) -> 1..Len(rd)] :
                   \A a, b \in 1..Len(rd) : a # b => g[a] # g[b] } }

\* C11: the tariff is an unordered set: for charge_type demand and energy,
\* whenever a table has been resolved and billed, every reordering of the
\* rows of the tariff also resolves to a table, and billing that table with
\* the same consumption gives the same cost
C11_RowOrderIrrelevant ==
    (pc = "done" /\ charge_type \in {"demand", "energy"} /\ cc_charge_type = charge_type)
        => \A rd \in RowOrders(rate_data) :
              LET ch == get_charge_array(window, rd, charge_type, utility)
              IN  /\ ch.kind = "table"
                  /\ calculate_cost(ch, consumption_data, cc_charge_type, cc_utility)
                         = [kind |-> "cost", value |-> cost]

----------------------------------------------------------------------------
(* C12 *)

\* the steps of the energy branch
EnergyStep == cc_charge_type = "energy" /\ pc \in {"energy", "crossed", "partial", "tier_end"}

\* C12: energy billing over three or more tiers with non-negative rates,
\* consumption and limits: no step lowers the running cost, the partial
\* amount billed at a crossing is never negative, and the cost stays >= 0
C12_EnergyNeverDecreases ==
    [][(EnergyStep /\ NTiers >= 3 /\ NonNegRates /\ NonNegLimits)
          => /\ cost' >= cost
             /\ cost' >= 0
             /\ pc = "partial" =>
                   PartialAmount(charges, cc_utility, j, consumption_data, energy, i) >= 0]_vars

====
